---- MODULE Spec2Model ----
(***************************************************************************)
(* The synchronization engine of rdm-integration: the job queue and the    *)
(* worker pool (image/app/utils/dataverse.go: AddJob, popJob, ProcessJobs, *)
(* doWork), the write loop (doPersistNodeMap, filterRedundant), the rehash *)
(* loop (doRehash, calculateHash), the hash cache and the comparator       *)
(* (localRehashToMatchRemoteHashType).                                     *)
(*                                                                         *)
(* The shared key-value store holds the list 'jobs', the keys              *)
(* 'lock: <persistentId>', 'hashes: <persistentId>' and the markers        *)
(* '<persistentId> -> <nodeId>'.  The dataset repository is the            *)
(* environment: dv is its file inventory.                                  *)
(***************************************************************************)
EXTENDS Integers, Sequences, FiniteSets, TLC

\* ------------------------------------------------------------- bounds
NumWorkers  == 2   \* workers started by the spinner
NumDatasets == 1   \* persistent ids
NumNodes    == 2   \* node ids per dataset
NumContents == 2   \* distinct byte sequences a source can deliver
NumComparers == 2  \* compare requests that run at the same time
MaxSets     == 2   \* markers a writer sets in one behaviour
MaxRequests == 1   \* requests of a kind where store and compare requests mix
MaxUploads  == 3   \* calls of write that go through getFile in one behaviour
MaxEntries  == 3   \* the added count and the file entries of an add-files answer
MaxTotal    == 21  \* nodes of a job whose loop is followed by its counters
MaxAdds     == 2   \* public AddJob calls in one behaviour
MaxRuns     == 3   \* comparator runs and invalidations in one behaviour

\* the write loop and the rehash loop flush the cache every 10th node
FlushEvery == 10

Workers  == 1..NumWorkers
Pids     == 1..NumDatasets
NodeIds  == 1..NumNodes

\* Byte sequences: Bytes(i) is i bytes long; the bytes are >= 1.
Bytes(i) == [j \in 1..i |-> 1]
Contents == {Bytes(i) : i \in 1..NumContents}

\* A persistent id as the text between its ':' separators: the datasets of
\* Pids are "doi:<p>"; BadPid is an id without ':'.
BadPid  == NumDatasets + 1
AllPids == Pids \cup {BadPid}
Parts(persistentId) ==
  IF persistentId \in Pids THEN << "doi", persistentId >> ELSE << persistentId >>

\* trimProtocol: strings.Split(persistentId, ":"), an error for fewer than
\* two parts, else the parts after the first
trimProtocol(persistentId) ==
  LET s == Parts(persistentId) IN
  IF Len(s) < 2
    THEN [ok |-> FALSE, pid |-> << >>]
    ELSE [ok |-> TRUE,  pid |-> Tail(s)]

\* ------------------------------------------------------------- maps
EmptyMap == [x \in {} |-> 0]
DelKey(f, k) == [x \in (DOMAIN f) \ {k} |-> f[x]]
Put(f, k, v) == [x \in (DOMAIN f) \cup {k} |-> IF x = k THEN v ELSE f[x]]
Restrict(f, S) == [x \in (DOMAIN f) \cap S |-> f[x]]

\* ------------------------------------------------------------- hashing
Md5      == "md5"
SHA1     == "sha1"
GitHash  == "gitHash"
FileSize == "fileSize"
HashKinds == {Md5, SHA1, GitHash, FileSize}
defaultHash == Md5

\* A digest in its "%x" form: the algorithm and everything that was written
\* to the hasher.  The empty string and "?" are digests of no algorithm.
NoHash      == [alg |-> "", data |-> << >>]
UnknownHash == [alg |-> "?", data |-> << >>]

\* "blob <fileSize>\x00": the marker -1, the decimal size, the NUL byte
BlobPrefix(fileSize) == << -1, fileSize, 0 >>

\* getHash seeds the hasher, hashingReader.Read feeds it every byte read,
\* Sum closes it.
getHash(hashType, fileSize) ==
  CASE hashType = Md5      -> [ok |-> TRUE,  alg |-> "md5",  seed |-> << >>]
    [] hashType = SHA1     -> [ok |-> TRUE,  alg |-> "sha1", seed |-> << >>]
    [] hashType = GitHash  -> [ok |-> TRUE,  alg |-> "sha1", seed |-> BlobPrefix(fileSize)]
    [] hashType = FileSize -> [ok |-> TRUE,  alg |-> "size", seed |-> << >>]
    [] OTHER               -> [ok |-> FALSE, alg |-> "",     seed |-> << >>]

Digest(hasher, bytes) ==
  IF hasher.alg = "size"
    THEN [alg |-> "size", data |-> << Len(bytes) >>]
    ELSE [alg |-> hasher.alg, data |-> hasher.seed \o bytes]

\* the digest write/doHash return for a stream of `bytes` when told fileSize
HashOf(hashType, fileSize, bytes) == Digest(getHash(hashType, fileSize), bytes)

\* the hash of kind k of a byte sequence (the gitHash law uses its length)
TrueHash(k, bytes) == HashOf(k, Len(bytes), bytes)

\* ------------------------------------------------------------- records
Delete == "delete"
Copy   == "copy"

\* dataset file record: numeric id, the bytes stored, the checksum value
\* registered with it (of kind defaultHash); id 0 is "not in the dataset"
NoFile == [id |-> 0, bytes |-> << >>, ck |-> NoHash]

\* calculatedHashes
Entry(lt, lv, rh) == [lt |-> lt, lv |-> lv, rh |-> rh]

\* zero value of Job
NoJob == [pid |-> 0, nodes |-> EmptyMap, streamType |-> "", plugin |-> ""]

HashOnly == "hash-only"
Github   == "github"

VARIABLES
  jobs,        \* the list 'jobs': head is the left end
  locks,       \* persistent ids whose key 'lock: <pid>' exists
  hashes,      \* 'hashes: <pid>': pid -> (node id -> calculatedHashes)
  markers,     \* '<pid> -> <node id>': "", "written" or "deleted"
  dv,          \* dataset repository: pid -> node id -> file record
  nextId,      \* next numeric file id the dataset repository hands out
  stop,        \* the Stop channel is closed
  pc,          \* worker -> "idle", "persist", "rehash", "exited", "crashed"
  wjob,        \* worker -> the job it works on (out of doPersistNodeMap/doRehash)
  known,       \* worker -> its knownHashes
  todo,        \* worker -> keys the range loop has not visited yet
  cnt,         \* worker -> i of the loop
  ctxDone,     \* worker -> the job's context is cancelled
  popped,      \* worker -> node ids of the job as popped
  prog,        \* worker -> the keys doPersistNodeMap got and the keys it finished
  adds,        \* number of public AddJob calls so far
  lastAdd,     \* observation of the last AddJob call
  last,        \* observation of the last job a worker returned from
  filt,        \* observation of the last filterRedundant call
  expired,     \* pids whose lock expired at least once
  cmpNodes,    \* comparator: the merged tree given to it
  cmpPid,      \* comparator: the dataset it compares
  cmpLog,      \* comparator: what each run returned, in order
  wr,          \* a call of write: its arguments and what it returned
  maxFileSize, \* configuration: the size limit of compared files (0: none)
  resp,        \* the compare response doCompare cached last
  lease,       \* observation of the list: the records pushed and not yet
               \* leased, oldest first, and whether every lease took the oldest
  mk,          \* the comparators between their Get and their Del of a marker,
               \* and which marker values no comparator has read yet
  fl,          \* a job loop by its counters: i, total, and the nodes
               \* processed since knownHashes was stored last
  perm,        \* whether the CheckPermission of the job popped last was made
               \* with a key that does not hold EditDataset
  up,          \* a call of write that goes through getFile: where it is,
               \* the sink, the pipe and the upload task
  reg          \* the last call of writeToDV: the answer of the dataset
               \* repository and whether the call returned an error

vars == << jobs, locks, hashes, markers, dv, nextId, stop, pc, wjob, known,
           todo, cnt, ctxDone, popped, prog, adds, lastAdd, last, filt, expired,
           cmpNodes, cmpPid, cmpLog, wr, maxFileSize, resp, lease, mk, fl, perm, up, reg >>

storeVars  == << jobs, locks, hashes, markers >>
workerVars == << pc, wjob, known, todo, cnt, ctxDone, popped, prog >>
cmpVars    == << cmpNodes, cmpPid, cmpLog >>
sizeVars   == << maxFileSize, resp >>
auxVars    == << mk, fl, perm, up, reg >>


\* ------------------------------------------------------------- shared store
\* json.Marshal / json.Unmarshal of a Job record of the list
Marshal(job)  == [json |-> job]
Unmarshal(v)  == v.json

\* value of the key 'hashes: <pid>'
Missing       == [present |-> FALSE, map |-> EmptyMap]
Stored(m)     == [present |-> TRUE,  map |-> m]

getKnownHashes(value) == IF value.present THEN value.map ELSE EmptyMap
storeKnownHashes(store, persistentId, knownHashes) ==
  [store EXCEPT ![persistentId] = Stored(knownHashes)]
invalidateKnownHashes(store, persistentId) ==
  [store EXCEPT ![persistentId] = Missing]

\* lock with Set in place of SetNX: the key is written whether it exists or not
lock_Set(persistentId, held) ==
  [ok |-> TRUE, locks |-> held \cup {persistentId}]

\* SetNX of 'lock: <pid>' (with lockMaxDuration) and Del of it
lock(persistentId, held) ==
  [ok |-> persistentId \notin held, locks |-> held \cup {persistentId}]
unlock(persistentId, held) == held \ {persistentId}

\* addJob: pushOk is whether LPUSH succeeds
addJob(job, requireLock, pushOk, q, held) ==
  IF DOMAIN job.nodes = {}
    THEN [err |-> FALSE, jobs |-> q, locks |-> held]
  ELSE IF requireLock /\ ~lock(job.pid, held).ok
    THEN [err |-> TRUE, jobs |-> q, locks |-> held]
  ELSE LET held2 == IF requireLock THEN lock(job.pid, held).locks ELSE held
       IN  IF pushOk
             THEN [err |-> FALSE, jobs |-> << Marshal(job) >> \o q, locks |-> held2]
             ELSE [err |-> TRUE,  jobs |-> q, locks |-> held2]

\* AddJob that calls addJob(job, false)
AddJob_NoLock(job, pushOk, q, held) ==
  IF DOMAIN job.nodes = {}
    THEN [err |-> FALSE, jobs |-> q, locks |-> held]
    ELSE addJob(job, FALSE, pushOk, q, held)

AddJob(job, pushOk, q, held) ==
  IF DOMAIN job.nodes = {}
    THEN [err |-> FALSE, jobs |-> q, locks |-> held]
    ELSE addJob(job, TRUE, pushOk, q, held)

\* popJob with LPOP: it takes the left end, the record pushed last
popJob_LPop(q) ==
  IF q = << >>
    THEN [ok |-> FALSE, job |-> NoJob, jobs |-> q]
    ELSE [ok |-> TRUE, job |-> Unmarshal(q[1]), jobs |-> Tail(q)]

\* popJob: RPOP takes the right end; an empty list is an error
popJob(q) ==
  IF q = << >>
    THEN [ok |-> FALSE, job |-> NoJob, jobs |-> q]
    ELSE [ok |-> TRUE, job |-> Unmarshal(q[Len(q)]), jobs |-> SubSeq(q, 1, Len(q) - 1)]

\* ------------------------------------------------------------- job inputs
\* The remote hash kinds of the source plugins in the model.
RemoteKinds == {GitHash, Md5}

\* mapToNodes: the node of a dataset file f (its metadata is the dataset's)
DatasetNode(n, f) ==
  [id |-> n, action |-> "", rkind |-> "", rhash |-> NoHash,
   fileId |-> f.id, filesize |-> Len(f.bytes),
   ckType |-> defaultHash, ckValue |-> f.ck,
   localHash |-> f.ck, src |-> f.bytes]

\* toNodeMap of a source plugin: the node of a source file with content c
SourceNode(n, rkind, c) ==
  [id |-> n, action |-> "", rkind |-> rkind, rhash |-> TrueHash(rkind, c),
   fileId |-> 0, filesize |-> Len(c),
   ckType |-> rkind, ckValue |-> TrueHash(rkind, c),
   localHash |-> NoHash, src |-> c]

\* a node in both trees keeps the dataset's metadata and takes the source's
\* remote hash; src is what the job's stream of the node delivers
MergedNode(n, f, rkind, c) ==
  [DatasetNode(n, f) EXCEPT !.rkind = rkind, !.rhash = TrueHash(rkind, c), !.src = c]

\* the nodes a store request of a plugin with remote hash kind k can carry
\* for node id n of dataset p
WriteChoices(p, n, k) ==
  LET f == dv[p][n] IN
  IF f.id = 0
    THEN {[SourceNode(n, k, c) EXCEPT !.action = Copy] : c \in Contents}
    ELSE {[DatasetNode(n, f) EXCEPT !.action = Delete]}
         \cup {[MergedNode(n, f, k, c) EXCEPT !.action = Copy] : c \in Contents}

\* the nodes a rehash job can carry: dataset files with a remote hash kind
RehashChoices(p, n, k) ==
  LET f == dv[p][n] IN
  IF f.id = 0 THEN {} ELSE {[DatasetNode(n, f) EXCEPT !.rkind = k]}

AllNodes(S, Choice(_)) ==
  {m \in [S -> UNION {Choice(n) : n \in S}] : \A n \in S : m[n] \in Choice(n)}

\* the jobs a request handler can hand to AddJob: the write jobs of store
\* requests of the GitHub plugin (its nodes have remote hash kind gitHash),
\* and hash-only jobs of any plugin's kind
WriteJobs(p, k) ==
  LET W(n) == WriteChoices(p, n, k) IN
  {[pid |-> p, nodes |-> m, streamType |-> Github, plugin |-> ""] :
      m \in UNION {AllNodes(S, W) : S \in (SUBSET NodeIds) \ {{}}}}

RehashJobs(p, k) ==
  LET R(n) == RehashChoices(p, n, k) IN
  {[pid |-> p, nodes |-> m, streamType |-> HashOnly, plugin |-> ""] :
      m \in UNION {AllNodes(S, R) : S \in (SUBSET NodeIds) \ {{}}}}

JobInputs(p) ==
  WriteJobs(p, GitHash) \cup UNION {RehashJobs(p, k) : k \in RemoteKinds}

\* ------------------------------------------------------------- observations
NoAdd  == [pid |-> 0, pending |-> FALSE, err |-> FALSE, pushed |-> FALSE,
           lockExpired |-> FALSE]
NoLast == [pid |-> 0, err |-> "", popped |-> {}, residual |-> {}, left |-> {},
           processed |-> 0, requeued |-> FALSE, unlocked |-> FALSE, lockHeld |-> FALSE,
           cancelled |-> FALSE, plugin |-> "", branch |-> "",
           input |-> {}, done |-> {}]
\* input: the nodes the loop was given; done: those whose calls all
\* succeeded; replaced: those of done whose old copy the loop deleted
NoProg == [input |-> {}, done |-> {}, replaced |-> {}]
NoFilt == [pid |-> 0, deletes |-> {}, gone |-> {}, kept |-> {}]

\* The list as its users see it.  pend: the records pushed and not leased yet,
\* oldest first; fifo: every lease so far handed out the oldest of them;
\* deep: some lease was taken while two different records were waiting.
NoLease == [pend |-> << >>, fifo |-> TRUE, deep |-> FALSE]
Pushed(l, rec, did) == IF did THEN [l EXCEPT !.pend = Append(@, rec)] ELSE l
Leased(l, rec) ==
  [pend |-> IF l.pend = << >> THEN << >> ELSE Tail(l.pend),
   fifo |-> l.fifo /\ l.pend # << >> /\ Head(l.pend) = rec,
   deep |-> l.deep \/ (Len(l.pend) >= 2 /\ l.pend[1] # l.pend[2])]

\* a job of persistentId is in the list or with a worker
Queued(persistentId) ==
  \E i \in 1..Len(jobs) : Unmarshal(jobs[i]).pid = persistentId
InWork(w) == pc[w] \in {"persist", "rehash"}
Pending(persistentId) ==
  Queued(persistentId) \/ \E w \in Workers : InWork(w) /\ wjob[w].pid = persistentId


\* ------------------------------------------------------------- dataset repository
\* GetNodeMap: the keys of the listing of the dataset's files
GetNodeMap(files) == {n \in NodeIds : files[n].id # 0}
HasId(files, id) == id # 0 /\ \E n \in NodeIds : files[n].id = id
DeleteById(files, id) == [n \in NodeIds |-> IF files[n].id = id THEN NoFile ELSE files[n]]

\* ------------------------------------------------------------- write job
\* knownHashes[k].RemoteHashes[kind]: value and ok of the double lookup
CacheLookup(knownHashes, id, kind) ==
  IF id \in DOMAIN knownHashes /\ kind \in DOMAIN knownHashes[id].rh
    THEN [ok |-> TRUE, value |-> knownHashes[id].rh[kind]]
    ELSE [ok |-> FALSE, value |-> NoHash]

hasDelete(nodes) == \E k \in DOMAIN nodes : nodes[k].action = Delete

\* first loop of filterRedundant that tests ok only, not h == RemoteHash
filteredEqual_AnyCached(nodes, knownHashes) ==
  Restrict(nodes,
    {k \in DOMAIN nodes :
       LET v == nodes[k]
           c == CacheLookup(knownHashes, k, v.rkind)
       IN  v.action = Delete \/ ~c.ok})

\* first loop of filterRedundant
filteredEqual(nodes, knownHashes) ==
  Restrict(nodes,
    {k \in DOMAIN nodes :
       LET v == nodes[k]
           c == CacheLookup(knownHashes, k, v.rkind)
       IN  v.action = Delete \/ ~(c.ok /\ c.value = v.rhash)})

\* filterRedundant; nm is the listing GetNodeMap returned (asked for only
\* when the job has a delete node)
filterRedundant(nodes, knownHashes, nm) ==
  LET fe == filteredEqual(nodes, knownHashes) IN
  IF ~hasDelete(nodes)
    THEN fe
    ELSE Restrict(fe, {k \in DOMAIN fe : ~(fe[k].action = Delete /\ k \in nm)})

\* the loop without delete(out.WritableNodes, k)
removeNode_Keep(nodes, k) == nodes

\* delete(out.WritableNodes, k)
removeNode(nodes, k) == DelKey(nodes, k)

\* What can happen to one node in the write loop.
\*   ok           every call succeeds
\*   writeFail    write returns an error (also: unsupported hash kind)
\*   deleteFail   deleteFromDV gets a status other than 200, 202, 204
\*   deletePanic  deleteFromDV gets no response: r is nil and r.StatusCode panics
\*   addFail      writeToDV gets a status other than 200, or an undecodable
\*                body, or one file entry with Added # 1
\*   addSilent    writeToDV gets 200, Added # 1 and not exactly one file entry
\*   addPanic     writeToDV gets no response: r is nil and r.StatusCode panics
\* The dataset repository deletes only a file it holds and registers a file
\* only under a name that is free.
Outcomes(v, files) ==
  IF v.action = Delete
    THEN {"deleteFail", "deletePanic"} \cup (IF HasId(files, v.fileId) THEN {"ok"} ELSE {})
  ELSE IF ~getHash(v.rkind, v.filesize).ok
    THEN {"writeFail"}
  ELSE {"writeFail"}
       \cup (IF v.fileId # 0 THEN {"deleteFail", "deletePanic"} ELSE {})
       \cup (IF v.fileId = 0 \/ HasId(files, v.fileId)
               THEN {"addFail", "addSilent", "addPanic"}
                    \cup (IF DeleteById(files, v.fileId)[v.id].id = 0 THEN {"ok"} ELSE {})
               ELSE {})

\* the loop body that deletes the old copy before it writes the bytes
PersistNode_DeleteFirst(v, o, knownHashes, files, fileId) ==
  LET base == [err |-> FALSE, panic |-> FALSE, known |-> knownHashes,
               files |-> files, nextId |-> fileId, removed |-> FALSE]
  IN
  IF v.action = Delete
    THEN CASE o = "ok" ->
                [base EXCEPT !.files = DeleteById(files, v.fileId),
                             !.known = DelKey(knownHashes, v.id),
                             !.removed = TRUE]
           [] o = "deletePanic" -> [base EXCEPT !.panic = TRUE]
           [] OTHER -> [base EXCEPT !.err = TRUE]
    ELSE
      LET h       == HashOf(defaultHash, v.filesize, v.src)
          remoteH == HashOf(v.rkind, v.filesize, v.src)
          kh1     == Put(knownHashes, v.id,
                         Entry(defaultHash, h, [k \in {v.rkind} |-> remoteH]))
          files1  == IF v.fileId # 0 THEN DeleteById(files, v.fileId) ELSE files
      IN CASE o = "writeFail"   -> [base EXCEPT !.err = TRUE, !.files = files1]
           [] o = "deleteFail"  -> [base EXCEPT !.err = TRUE, !.known = kh1]
           [] o = "deletePanic" -> [base EXCEPT !.panic = TRUE, !.known = kh1]
           [] o = "addFail"     -> [base EXCEPT !.err = TRUE, !.known = kh1, !.files = files1]
           [] o = "addPanic"    -> [base EXCEPT !.panic = TRUE, !.known = kh1, !.files = files1]
           [] o = "addSilent"   -> [base EXCEPT !.known = kh1, !.files = files1, !.removed = TRUE]
           [] OTHER ->
                [base EXCEPT !.known = kh1,
                             !.files = [files1 EXCEPT ![v.id] =
                                          [id |-> fileId, bytes |-> v.src, ck |-> h]],
                             !.nextId = fileId + 1,
                             !.removed = TRUE]

\* body of the range loop of doPersistNodeMap for node v with outcome o:
\* removed is delete(out.WritableNodes, k)
PersistNode(v, o, knownHashes, files, fileId) ==
  LET base == [err |-> FALSE, panic |-> FALSE, known |-> knownHashes,
               files |-> files, nextId |-> fileId, removed |-> FALSE]
  IN
  IF v.action = Delete
    THEN CASE o = "ok" ->
                [base EXCEPT !.files = DeleteById(files, v.fileId),
                             !.known = DelKey(knownHashes, v.id),
                             !.removed = TRUE]
           [] o = "deletePanic" -> [base EXCEPT !.panic = TRUE]
           [] OTHER -> [base EXCEPT !.err = TRUE]
    ELSE
      LET h       == HashOf(defaultHash, v.filesize, v.src)
          remoteH == HashOf(v.rkind, v.filesize, v.src)
          kh1     == Put(knownHashes, v.id,
                         Entry(defaultHash, h, [k \in {v.rkind} |-> remoteH]))
          files1  == IF v.fileId # 0 THEN DeleteById(files, v.fileId) ELSE files
      IN CASE o = "writeFail"   -> [base EXCEPT !.err = TRUE]
           [] o = "deleteFail"  -> [base EXCEPT !.err = TRUE, !.known = kh1]
           [] o = "deletePanic" -> [base EXCEPT !.panic = TRUE, !.known = kh1]
           [] o = "addFail"     -> [base EXCEPT !.err = TRUE, !.known = kh1, !.files = files1]
           [] o = "addPanic"    -> [base EXCEPT !.panic = TRUE, !.known = kh1, !.files = files1]
           [] o = "addSilent"   -> [base EXCEPT !.known = kh1, !.files = files1, !.removed = TRUE]
           [] OTHER ->
                [base EXCEPT !.known = kh1,
                             !.files = [files1 EXCEPT ![v.id] =
                                          [id |-> fileId, bytes |-> v.src, ck |-> h]],
                             !.nextId = fileId + 1,
                             !.removed = TRUE]

\* write: trimProtocol, the hashers from getHash(…, fileSize), the stream
\* read once through the stacked hashingReaders into the storage; ioOk is
\* whether opening, copying and closing succeed
write(bytes, persistentId, hashType, remoteHashType, fileSize, ioOk) ==
  LET fail == [err |-> TRUE, hash |-> NoHash, remoteHash |-> NoHash, size |-> 0] IN
  IF ~trimProtocol(persistentId).ok THEN fail
  ELSE IF ~getHash(hashType, fileSize).ok THEN fail
  ELSE IF ~getHash(remoteHashType, fileSize).ok THEN fail
  ELSE IF ~ioOk THEN fail
  ELSE [err        |-> FALSE,
        hash       |-> HashOf(hashType, fileSize, bytes),
        remoteHash |-> HashOf(remoteHashType, fileSize, bytes),
        size       |-> Len(bytes)]

NoWrite == [called |-> FALSE, bytes |-> << >>, pid |-> 0, hashType |-> "",
            remoteHashType |-> "", fileSize |-> 0,
            ret |-> [err |-> FALSE, hash |-> NoHash, remoteHash |-> NoHash, size |-> 0]]

\* one call of write on the arguments held in wr
WriteCall ==
  /\ ~wr.called
  /\ wr.pid # 0
  /\ \E ioOk \in BOOLEAN :
       wr' = [wr EXCEPT !.called = TRUE,
                        !.ret = write(wr.bytes, wr.pid, wr.hashType,
                                      wr.remoteHashType, wr.fileSize, ioOk)]
  /\ UNCHANGED << storeVars, dv, nextId, stop, workerVars, adds, lastAdd, last,
                  filt, expired, cmpVars, sizeVars, lease, auxVars >>

\* ------------------------------------------------------------- rehash job
\* calculateHash; hashed is the digest doHash returned
calculateHash(node, knownHashes, hashed) ==
  LET hashType == node.rkind
      ok       == node.id \in DOMAIN knownHashes
      match    == ok /\ knownHashes[node.id].lt = node.ckType
                     /\ knownHashes[node.id].lv = node.ckValue
      entry    == IF match THEN knownHashes[node.id]
                  ELSE Entry(node.ckType, node.ckValue, EmptyMap)
  IN  IF match /\ hashType \in DOMAIN entry.rh
        THEN knownHashes
        ELSE Put(knownHashes, node.id, [entry EXCEPT !.rh = Put(entry.rh, hashType, hashed)])

\* calculateHash calls doHash unless the entry matches and has the kind
needsHash(node, knownHashes) == calculateHash(node, knownHashes, UnknownHash) # knownHashes

\* doHash: the digest of the bytes stored for the node's file
doHash(node) == HashOf(node.rkind, node.filesize, node.src)

\* ------------------------------------------------------------- comparator
Written == "written"
Deleted == "deleted"
Marks   == {"", Written, Deleted}

\* the key "<persistentId> -> <k>" shared by every node
redisKey_NoNode(persistentId, k) == << persistentId, 1 >>

\* fmt.Sprintf("%v -> %v", persistentId, k)
redisKey(persistentId, k) == << persistentId, k >>

\* GetRedis().Get(ctx, redisKey).Val(): a missing key reads as ""
GetMarker(ms, key) == ms[key[1]][key[2]]

\* if redisValue != "" { GetRedis().Del(ctx, redisKey) }
DelMarker(ms, key) ==
  IF GetMarker(ms, key) # ""
    THEN [ms EXCEPT ![key[1]][key[2]] = ""]
    ELSE ms

\* the loop body that never marks a node for rehash
compareNode_NoRehashMark(node, knownHashes, redisValue) ==
  IF node.rkind = ""
    THEN [lh |-> node.localHash, job |-> FALSE, from |-> "node"]
    ELSE
      LET c    == CacheLookup(knownHashes, node.id, node.rkind)
          own  == node.localHash # NoHash /\ node.rkind = node.ckType
          v1   == IF own THEN node.localHash ELSE c.value
          ok1  == own \/ c.ok
          v2   == CASE redisValue = Written -> node.rhash
                    [] redisValue = Deleted -> NoHash
                    [] OTHER                -> v1
      IN  [lh   |-> v2, job |-> FALSE,
           from |-> CASE redisValue # "" -> "marker"
                      [] own             -> "checksum"
                      [] c.ok            -> "cache"
                      [] OTHER           -> "none"]

\* the loop body that lets the cache override the dataset's own checksum
compareNode_CacheFirst(node, knownHashes, redisValue) ==
  IF node.rkind = ""
    THEN [lh |-> node.localHash, job |-> FALSE, from |-> "node"]
    ELSE
      LET c    == CacheLookup(knownHashes, node.id, node.rkind)
          own  == node.localHash # NoHash /\ node.rkind = node.ckType
          v1   == IF c.ok THEN c.value ELSE IF own THEN node.localHash ELSE NoHash
          ok1  == own \/ c.ok
          v2   == CASE redisValue = Written -> node.rhash
                    [] redisValue = Deleted -> NoHash
                    [] OTHER                -> v1
          ok2  == CASE redisValue = Written -> TRUE
                    [] redisValue = Deleted -> FALSE
                    [] OTHER                -> ok1
          miss == ~ok2 /\ node.localHash # NoHash
      IN  [lh   |-> IF miss THEN UnknownHash ELSE v2,
           job  |-> miss,
           from |-> CASE redisValue # "" -> "marker"
                      [] c.ok            -> "cache"
                      [] own             -> "checksum"
                      [] OTHER           -> "none"]

\* the loop body of localRehashToMatchRemoteHashType for one node: the local
\* hash it is annotated with, whether it goes into jobNodes, and where the
\* value came from
compareNode(node, knownHashes, redisValue) ==
  IF node.rkind = ""
    THEN [lh |-> node.localHash, job |-> FALSE, from |-> "node"]
    ELSE
      LET c    == CacheLookup(knownHashes, node.id, node.rkind)
          own  == node.localHash # NoHash /\ node.rkind = node.ckType
          v1   == IF own THEN node.localHash ELSE c.value
          ok1  == own \/ c.ok
          v2   == CASE redisValue = Written -> node.rhash
                    [] redisValue = Deleted -> NoHash
                    [] OTHER                -> v1
          ok2  == CASE redisValue = Written -> TRUE
                    [] redisValue = Deleted -> FALSE
                    [] OTHER                -> ok1
          miss == ~ok2 /\ node.localHash # NoHash
      IN  [lh   |-> IF miss THEN UnknownHash ELSE v2,
           job  |-> miss,
           from |-> CASE redisValue # "" -> "marker"
                      [] own             -> "checksum"
                      [] c.ok            -> "cache"
                      [] OTHER           -> "none"]

\* the markers after the loop has visited the nodes of S (any order: each
\* node touches its own key only)
RECURSIVE DelMarkers(_, _, _)
DelMarkers(ms, persistentId, S) ==
  IF S = {} THEN ms
  ELSE LET k == CHOOSE x \in S : TRUE
       IN  DelMarkers(DelMarker(ms, redisKey(persistentId, k)), persistentId, S \ {k})

\* the action the comparison assigns to an annotated node
Action(node, lh) ==
  CASE node.rkind = ""  -> "delete"
    [] node.fileId = 0  -> "new"
    [] lh = NoHash      -> "new"
    [] lh = UnknownHash -> "unknown"
    [] lh = node.rhash  -> "equal"
    [] OTHER            -> "update"

NoRun == [op |-> "", lh |-> EmptyMap, act |-> EmptyMap, from |-> EmptyMap, marked |-> {},
          jobNodes |-> {}, addJobs |-> FALSE, misses |-> FALSE]

\* localRehashToMatchRemoteHashType(…, addJobs = true) on the tree `nodes`
\* of dataset pid: what the loop finds for every node
Annotate(pid, nodes) ==
  [k \in DOMAIN nodes |->
     compareNode(nodes[k], getKnownHashes(hashes[pid]),
                 GetMarker(markers, redisKey(pid, k)))]

\* if len(jobNodes) > 0 && addJobs, without the test of addJobs
shouldAdd_Always(jobNodes, addJobs) == DOMAIN jobNodes # {}

\* if len(jobNodes) > 0 && addJobs
shouldAdd(jobNodes, addJobs) == DOMAIN jobNodes # {} /\ addJobs

\* localRehashToMatchRemoteHashType on the tree `nodes` of dataset pid: the
\* markers it consumes, the job it enqueues and the result it returns
\* (the annotated nodes and len(jobNodes) > 0)
Rehash(pid, nodes, addJobs) ==
  LET keys     == DOMAIN nodes
      r        == Annotate(pid, nodes)
      jobNodes == Restrict(nodes, {k \in keys : r[k].job})
      job == [pid |-> pid, nodes |-> jobNodes, streamType |-> "", plugin |-> HashOnly]
  IN  /\ markers' = DelMarkers(markers, pid, {k \in keys : nodes[k].rkind # ""})
      /\ IF shouldAdd(jobNodes, addJobs)
           THEN \E pushOk \in BOOLEAN :
                  LET a == AddJob(job, pushOk, jobs, locks) IN
                  /\ (pushOk \/ pid \notin locks)
                  /\ jobs'  = a.jobs
                  /\ locks' = a.locks
                  /\ lease' = Pushed(lease, Marshal(job), ~a.err /\ DOMAIN jobNodes # {})
           ELSE UNCHANGED << jobs, locks, lease >>
      /\ cmpLog' = Append(cmpLog,
           [op     |-> "compare",
            lh     |-> [k \in keys |-> r[k].lh],
            act    |-> [k \in keys |-> Action(nodes[k], r[k].lh)],
            from   |-> [k \in keys |-> r[k].from],
            marked |-> {k \in keys : markers[pid][k] # ""},
            jobNodes |-> DOMAIN jobNodes,
            addJobs  |-> addJobs,
            misses   |-> DOMAIN jobNodes # {}])

\* the comparison of a compare request: addJobs is true
Compare(pid, nodes) == Rehash(pid, nodes, TRUE)

\* one run of localRehashToMatchRemoteHashType on the merged tree cmpNodes
\* of dataset cmpPid
CompareRun ==
  /\ cmpPid # 0
  /\ Len(cmpLog) < MaxRuns
  /\ \E addJobs \in BOOLEAN : Rehash(cmpPid, cmpNodes, addJobs)
  /\ UNCHANGED << hashes, dv, nextId, stop, workerVars, adds, lastAdd, last,
                  filt, expired, cmpNodes, cmpPid, wr, sizeVars, auxVars >>

\* ------------------------------------------------------------- permissions
EditDataset == "EditDataset"
ViewUnpublishedDataset == "ViewUnpublishedDataset"

\* the sets res.Data.Permissions the dataset repository can answer with
GrantSets == {{}, {ViewUnpublishedDataset}, {ViewUnpublishedDataset, EditDataset}}

\* CheckPermission that accepts a key with any permission on the dataset
CheckPermission_AnyGrant(granted, probeOk) == probeOk /\ granted # {}

\* CheckPermission returns nil: the request succeeded with status "OK"
\* (probeOk) and "EditDataset" is among the permissions
CheckPermission(granted, probeOk) == probeOk /\ EditDataset \in granted

\* ------------------------------------------------------------- compare request
\* err: errorMessage is not empty; denied: the key does not hold
\* EditDataset; listed, queried: GetNodeMap and the plugin's Query were called
NoResp == [called |-> FALSE, err |-> FALSE, repo |-> EmptyMap, act |-> EmptyMap,
           tooLarge |-> {}, maxFileSize |-> 0,
           denied |-> FALSE, listed |-> FALSE, queried |-> FALSE]

\* the listing of the dataset as a node map
DatasetTree(files) == [n \in GetNodeMap(files) |-> DatasetNode(n, files[n])]

\* the trees a source plugin with remote hash kind k can answer a query with
SourceTrees(k) ==
  UNION {AllNodes(S, LAMBDA n : {SourceNode(n, k, c) : c \in Contents}) :
           S \in SUBSET NodeIds}

\* doCompare: the keys of repoNm that are over the limit
TooLarge(repoNm, max) ==
  {k \in DOMAIN repoNm : max > 0 /\ repoNm[k].filesize > max}

\* doCompare: repoNm after the loop that deletes the keys over the limit
DropTooLarge(repoNm, max) ==
  Restrict(repoNm, (DOMAIN repoNm) \ TooLarge(repoNm, max))

\* the union of the dataset's tree and the source's tree: a node in both
\* keeps the dataset's metadata and takes the source's remote hash
MergeNodeMaps(nm, repoNm) ==
  [k \in (DOMAIN nm) \cup (DOMAIN repoNm) |->
     IF k \in DOMAIN nm /\ k \in DOMAIN repoNm
       THEN [nm[k] EXCEPT !.rkind = repoNm[k].rkind, !.rhash = repoNm[k].rhash,
                          !.src = repoNm[k].src]
     ELSE IF k \in DOMAIN nm THEN nm[k]
     ELSE repoNm[k]]

\* doCompare returns early: the cached response has the error message only
CompareFailed(denied, listed, queried) ==
  /\ resp' = [NoResp EXCEPT !.called = TRUE, !.err = TRUE, !.denied = denied,
                            !.listed = listed, !.queried = queried]
  /\ UNCHANGED << jobs, locks, markers, cmpLog, lease >>

\* doCompare for dataset p: CheckPermission, GetNodeMap, the plugin's Query
\* (each may fail), the size limit, the merge and the comparison; every
\* return caches the response
doCompare(p) ==
  /\ Len(cmpLog) < MaxRuns
  /\ \E granted \in GrantSets, probeOk \in BOOLEAN :
       IF ~CheckPermission(granted, probeOk)
         THEN CompareFailed(EditDataset \notin granted, FALSE, FALSE)
         ELSE
           \/ CompareFailed(EditDataset \notin granted, TRUE, FALSE)
           \/ CompareFailed(EditDataset \notin granted, TRUE, TRUE)
           \/ \E k \in RemoteKinds : \E repoNm \in SourceTrees(k) :
                LET nm     == DatasetTree(dv[p])
                    kept   == DropTooLarge(repoNm, maxFileSize)
                    merged == MergeNodeMaps(nm, kept)
                    r      == Annotate(p, merged)
                IN  /\ Compare(p, merged)
                    /\ resp' = [NoResp EXCEPT
                                  !.called      = TRUE,
                                  !.denied      = EditDataset \notin granted,
                                  !.listed      = TRUE,
                                  !.queried     = TRUE,
                                  !.repo        = repoNm,
                                  !.act         = [n \in DOMAIN merged |->
                                                     Action(merged[n], r[n].lh)],
                                  !.tooLarge    = TooLarge(repoNm, maxFileSize),
                                  !.maxFileSize = maxFileSize]
  /\ UNCHANGED << hashes, dv, nextId, stop, workerVars, adds, lastAdd, last,
                  filt, expired, cmpNodes, cmpPid, wr, maxFileSize, auxVars >>

\* invalidateKnownHashes(cmpPid)
Invalidate ==
  /\ cmpPid # 0
  /\ Len(cmpLog) < MaxRuns
  /\ hashes' = invalidateKnownHashes(hashes, cmpPid)
  /\ cmpLog' = Append(cmpLog, [NoRun EXCEPT !.op = "invalidate"])
  /\ UNCHANGED << jobs, locks, markers, dv, nextId, stop, workerVars, adds,
                  lastAdd, last, filt, expired, cmpNodes, cmpPid, wr, sizeVars, lease, auxVars >>

\* ------------------------------------------------------------- markers
Comparers == 1..NumComparers

\* a comparator is at the top of its loop body ("idle") or has done
\* Get(redisKey) for node `key` of dataset `pid` and holds redisValue `val`;
\* unread: the keys whose value was set and not read by any comparator since;
\* lost: some Del removed a value no comparator had read
NoMk == [pc     |-> [c \in Comparers |-> "idle"],
         pid    |-> [c \in Comparers |-> 0],
         key    |-> [c \in Comparers |-> 0],
         val    |-> [c \in Comparers |-> ""],
         unread |-> {},
         lost   |-> FALSE,
         sets   |-> 0]

\* no job loop is running
NoFl == [pc |-> "idle", kind |-> "", i |-> 0, total |-> 0, unflushed |-> 0,
         permitted |-> FALSE, exitStore |-> FALSE]

\* no CheckPermission was made
NoPerm == [denied |-> FALSE]

\* write has not called getFile yet.  sword: getFile takes the branch of
\* the pipe; opened: getFile returned a sink; sinkOpen: it is not closed;
\* pipeOpen: pw is not closed; tasks: the goroutines started by this call;
\* running: wg's counter is not zero; ret: "" until write returns
NoUp == [pc |-> "idle", sword |-> FALSE, opened |-> FALSE, sinkOpen |-> FALSE,
         pipeOpen |-> FALSE, tasks |-> 0, running |-> FALSE,
         err_copy |-> FALSE, err_close |-> FALSE, async_err |-> FALSE,
         ret |-> "", calls |-> 0]

\* writeToDV was not called
NoReg == [called |-> FALSE, status |-> 0, decodeErr |-> FALSE, added |-> 0,
          files |-> 0, err |-> FALSE]

AuxInit == mk = NoMk /\ fl = NoFl /\ perm = NoPerm /\ up = NoUp /\ reg = NoReg

\* a writer sets the marker of node n of dataset p to v
SetMarker(p, n, v) ==
  /\ mk.sets < MaxSets
  /\ markers' = [markers EXCEPT ![p][n] = v]
  /\ mk' = [mk EXCEPT !.unread = @ \cup {redisKey(p, n)}, !.sets = @ + 1]
  /\ UNCHANGED << jobs, locks, hashes, dv, nextId, stop, workerVars, adds, lastAdd,
                  last, filt, expired, cmpVars, wr, sizeVars, lease, fl, perm, up, reg >>

\* redisValue := GetRedis().Get(ctx, redisKey).Val() of comparator c
MarkerGet(c, p, n) ==
  /\ mk.pc[c] = "idle"
  /\ mk' = [mk EXCEPT !.pc[c] = "read", !.pid[c] = p, !.key[c] = n,
                      !.val[c] = GetMarker(markers, redisKey(p, n)),
                      !.unread = @ \ {redisKey(p, n)}]
  /\ UNCHANGED << storeVars, dv, nextId, stop, workerVars, adds, lastAdd,
                  last, filt, expired, cmpVars, wr, sizeVars, lease, fl, perm, up, reg >>

\* if redisValue != "" { GetRedis().Del(ctx, redisKey) } of comparator c
MarkerDel(c) ==
  /\ mk.pc[c] = "read"
  /\ LET key == redisKey(mk.pid[c], mk.key[c])
         del == mk.val[c] # ""
     IN  /\ markers' = IF del THEN [markers EXCEPT ![key[1]][key[2]] = ""] ELSE markers
         /\ mk' = [mk EXCEPT !.pc[c] = "idle", !.pid[c] = 0, !.key[c] = 0, !.val[c] = "",
                             !.unread = IF del THEN @ \ {key} ELSE @,
                             !.lost = @ \/ (del /\ key \in mk.unread)]
  /\ UNCHANGED << jobs, locks, hashes, dv, nextId, stop, workerVars, adds, lastAdd,
                  last, filt, expired, cmpVars, wr, sizeVars, lease, fl, perm, up, reg >>

\* ------------------------------------------------------------- flush cadence
\* if i%10 == 0 && i < total
flushNow(i, total) == i % FlushEvery = 0 /\ i < total

\* everything but the loop counters
notFl == << storeVars, dv, nextId, stop, workerVars, adds, lastAdd, last, filt,
            expired, cmpVars, wr, sizeVars, lease, mk, perm, up, reg >>

\* doPersistNodeMap or doRehash is called on a job of `total` nodes:
\* CheckPermission, then the deferred storeKnownHashes is registered
LoopStart(kind, total) ==
  /\ fl.pc \in {"idle", "done"}
  /\ \E permOk \in BOOLEAN :
       fl' = IF permOk
               THEN [NoFl EXCEPT !.pc = "loop", !.kind = kind, !.total = total,
                                 !.permitted = TRUE]
               ELSE [NoFl EXCEPT !.pc = "done", !.kind = kind, !.total = total]
  /\ UNCHANGED notFl

\* the function returns: the deferred storeKnownHashes runs
LoopReturn == [fl EXCEPT !.pc = "done", !.unflushed = 0, !.exitStore = TRUE]

\* one turn of the loop of doPersistNodeMap: the select on ctx.Done(), i++,
\* the flush, then the node (ok: its calls succeed)
PersistTurn ==
  /\ fl.pc = "loop" /\ fl.kind = "write" /\ fl.i < fl.total
  /\ \E cancelled \in BOOLEAN, ok \in BOOLEAN :
       LET i     == fl.i + 1
           since == IF flushNow(i, fl.total) THEN 0 ELSE fl.unflushed
       IN  fl' = IF cancelled THEN LoopReturn
                 ELSE IF ~ok THEN [LoopReturn EXCEPT !.i = i]
                 ELSE [fl EXCEPT !.i = i, !.unflushed = since + 1]
  /\ UNCHANGED notFl

\* one turn of the loop of doRehash: calculateHash, i++, the flush
RehashTurn ==
  /\ fl.pc = "loop" /\ fl.kind = "rehash" /\ fl.i < fl.total
  /\ \E ok \in BOOLEAN :
       LET i == fl.i + 1 IN
       fl' = IF ~ok THEN LoopReturn
             ELSE [fl EXCEPT !.i = i,
                             !.unflushed = IF flushNow(i, fl.total) THEN 0 ELSE @ + 1]
  /\ UNCHANGED notFl

\* the range is exhausted: the function returns
LoopEnd ==
  /\ fl.pc = "loop" /\ fl.i = fl.total
  /\ fl' = [LoopReturn EXCEPT !.i = fl.i]
  /\ UNCHANGED notFl

\* ------------------------------------------------------------- upload
\* everything but the call of write that is followed
notUp == << storeVars, dv, nextId, stop, workerVars, adds, lastAdd, last, filt,
            expired, cmpVars, wr, sizeVars, lease, mk, fl, perm, reg >>

\* the test after wg.Wait() that leaves async_err.Err out
writeFailed_NoAsync(err_copy, err_close, async_err) == err_copy \/ err_close

\* if err_copy != nil || err_close != nil || async_err.Err != nil
writeFailed(err_copy, err_close, async_err) == err_copy \/ err_close \/ async_err

\* f, err := getFile(…): in the branch of the pipe zipWriter.Create may fail
\* before the goroutine is started; else wg.Add(1); go swordAddFile(…).
\* In the other branch os.Create may fail and no goroutine is started.
GetFile ==
  /\ up.pc \in {"idle", "returned"}
  /\ up.calls < MaxUploads
  /\ \E sword \in BOOLEAN, ok \in BOOLEAN :
       up' = IF ~ok
               THEN [NoUp EXCEPT !.pc = "returned", !.sword = sword, !.ret = "err",
                                 !.calls = up.calls + 1]
               ELSE [NoUp EXCEPT !.pc = "copy", !.sword = sword, !.opened = TRUE,
                                 !.sinkOpen = TRUE, !.pipeOpen = sword,
                                 !.tasks = IF sword THEN 1 ELSE 0,
                                 !.running = sword,
                                 !.calls = up.calls + 1]
  /\ UNCHANGED notUp

\* _, err_copy := io.Copy(f, reader)
ioCopy ==
  /\ up.pc = "copy"
  /\ \E ok \in BOOLEAN : up' = [up EXCEPT !.pc = "close", !.err_copy = ~ok]
  /\ UNCHANGED notUp

\* err_close := f.Close(): zipWriterCloser.Close closes the zip writer and,
\* deferred, the pipe; a file is closed
fClose ==
  /\ up.pc = "close"
  /\ \E ok \in BOOLEAN :
       up' = [up EXCEPT !.pc = "wait", !.err_close = ~ok, !.sinkOpen = FALSE,
                        !.pipeOpen = FALSE]
  /\ UNCHANGED notUp

\* swordAddFile ends: with success only when it has read the pipe to its
\* end, with an error in async_err at any time; then wg.Done()
swordAddFile ==
  /\ up.running
  /\ \E ok \in BOOLEAN :
       /\ ok => ~up.pipeOpen
       /\ up' = [up EXCEPT !.running = FALSE, !.async_err = ~ok]
  /\ UNCHANGED notUp

\* wg.Wait() returns, write tests the three errors and returns
WaitReturn ==
  /\ up.pc = "wait"
  /\ ~up.running
  /\ up' = [up EXCEPT !.pc = "returned",
                      !.ret = IF writeFailed(up.err_copy, up.err_close, up.async_err)
                                THEN "err" ELSE "ok"]
  /\ UNCHANGED notUp

\* ------------------------------------------------------------- registration
\* the status codes of the answers to the add-files request
Statuses == {200, 201, 404, 500}

\* writeToDV on an answer: its status, whether json.Unmarshal failed, and
\* res.Data.Result.Added and len(res.Data.Files) after the decoding; TRUE
\* when it returns an error
writeToDV(status, decodeErr, added, files) ==
  IF status # 200 THEN TRUE
  ELSE IF added # 1 /\ files = 1 THEN TRUE
  ELSE decodeErr

\* one call of writeToDV that gets an answer
AddFilesCall ==
  /\ \E status \in Statuses, decodeErr \in BOOLEAN,
        added \in 0..MaxEntries, files \in 0..MaxEntries :
       reg' = [called |-> TRUE, status |-> status, decodeErr |-> decodeErr,
               added |-> added, files |-> files,
               err |-> writeToDV(status, decodeErr, added, files)]
  /\ UNCHANGED << storeVars, dv, nextId, stop, workerVars, adds, lastAdd, last, filt,
                  expired, cmpVars, wr, sizeVars, lease, mk, fl, perm, up >>

\* ------------------------------------------------------------- worker
\* ctx.Err() of a cancelled context
ctxErr == "context canceled"

\* ProcessJobs that tests len(job.WritableNodes) > 0 only
AfterWork_RequeueOnError(persistentId, out, err, pushOk, q, held) ==
  IF DOMAIN out.nodes # {}
    THEN LET r == addJob(out, FALSE, pushOk, q, held)
         IN  [jobs |-> r.jobs, locks |-> r.locks, requeued |-> ~r.err, unlocked |-> FALSE]
    ELSE [jobs |-> q, locks |-> unlock(persistentId, held), requeued |-> FALSE, unlocked |-> TRUE]

\* ProcessJobs after doWork returned (out, err) for the job of persistentId
AfterWork(persistentId, out, err, pushOk, q, held) ==
  IF err = "" /\ DOMAIN out.nodes # {}
    THEN LET r == addJob(out, FALSE, pushOk, q, held)
         IN  [jobs |-> r.jobs, locks |-> r.locks, requeued |-> ~r.err, unlocked |-> FALSE]
    ELSE [jobs |-> q, locks |-> unlock(persistentId, held), requeued |-> FALSE, unlocked |-> TRUE]

\* doWork: job.StreamType == "hash-only" goes to doRehash, anything else to
\* deserialize, filterRedundant and doPersistNodeMap
doWorkBranch(job) == IF job.streamType = HashOnly THEN "rehash" ELSE "write"

\* the worker is back at the top of its loop
Reset(w) ==
  /\ wjob'    = [wjob EXCEPT ![w] = NoJob]
  /\ known'   = [known EXCEPT ![w] = EmptyMap]
  /\ todo'    = [todo EXCEPT ![w] = {}]
  /\ cnt'     = [cnt EXCEPT ![w] = 0]
  /\ ctxDone' = [ctxDone EXCEPT ![w] = FALSE]
  /\ popped'  = [popped EXCEPT ![w] = {}]
  /\ prog'    = [prog EXCEPT ![w] = NoProg]

\* doWork returns (out, err) to ProcessJobs; store: the deferred
\* storeKnownHashes runs; q is the list after the pop; left are the nodes of
\* the job that were not processed, n the number of those that were; byCtx:
\* the return is the one of a select on ctx.Done()
Return(w, persistentId, ids, out, err, kh, store, q, left, n, byCtx) ==
  \E pushOk \in BOOLEAN :
    LET r  == AfterWork(persistentId, out, err, pushOk, q, locks)
        inJob == IF pc[w] = "idle" THEN popJob(jobs).job ELSE wjob[w]
    IN
    /\ (pushOk \/ (err = "" /\ DOMAIN out.nodes # {}))
    /\ hashes' = IF store THEN storeKnownHashes(hashes, persistentId, kh) ELSE hashes
    /\ jobs'   = r.jobs
    /\ locks'  = r.locks
    /\ last'   = [pid |-> persistentId, err |-> err, popped |-> ids,
                  residual |-> DOMAIN out.nodes, left |-> left, processed |-> n,
                  requeued |-> r.requeued, unlocked |-> r.unlocked,
                  lockHeld |-> persistentId \in r.locks, cancelled |-> byCtx,
                  plugin |-> inJob.plugin, branch |-> doWorkBranch(inJob),
                  input |-> IF pc[w] = "idle" THEN left ELSE prog[w].input,
                  done |-> prog[w].done]
    /\ lease' = Pushed(IF pc[w] = "idle" THEN Leased(lease, Marshal(inJob)) ELSE lease,
                        Marshal(out), r.requeued)
    /\ pc' = [pc EXCEPT ![w] = "idle"]
    /\ Reset(w)

\* an unrecovered panic in a worker ends the process: the deferred
\* storeKnownHashes of the panicking worker runs, nothing else does
Panic(w, persistentId, kh) ==
  /\ hashes' = storeKnownHashes(hashes, persistentId, kh)
  /\ pc' = [x \in Workers |-> IF pc[x] = "exited" THEN "exited" ELSE "crashed"]
  /\ UNCHANGED << jobs, locks, last, wjob, known, todo, cnt, ctxDone, popped, prog, lease >>


\* ------------------------------------------------------------- actions
\* a request handler calls AddJob with one of the jobs J for dataset p
EnqueueFrom(p, J) ==
  /\ adds < MaxAdds
  /\ \E job \in J, pushOk \in BOOLEAN :
       LET r == AddJob(job, pushOk, jobs, locks) IN
       /\ (pushOk \/ p \notin locks)
       /\ jobs'    = r.jobs
       /\ locks'   = r.locks
       /\ adds'    = adds + 1
       /\ lease'   = Pushed(lease, Marshal(job), ~r.err /\ DOMAIN job.nodes # {})
       /\ lastAdd' = [pid |-> p, pending |-> Pending(p), err |-> r.err,
                      pushed |-> r.jobs # jobs, lockExpired |-> p \in expired]
  /\ UNCHANGED << hashes, markers, dv, nextId, stop, workerVars, last, filt,
                  expired, cmpVars, wr, sizeVars, auxVars >>

\* a request handler calls AddJob (the store request of a client)
Enqueue(p) == EnqueueFrom(p, JobInputs(p))

\* the store request of a client of a plugin with remote hash kind k
EnqueueWrite(p, k) == EnqueueFrom(p, WriteJobs(p, k))

\* a client hands AddJob a job with StreamType "hash-only"
EnqueueHashOnly(p) == EnqueueFrom(p, UNION {RehashJobs(p, k) : k \in RemoteKinds})

\* the key 'lock: <pid>' reaches lockMaxDuration and the store drops it
LockExpire(p) ==
  /\ p \in locks
  /\ locks'   = locks \ {p}
  /\ expired' = IF Pending(p) THEN expired \cup {p} ELSE expired
  /\ UNCHANGED << jobs, hashes, markers, dv, nextId, stop, workerVars, adds,
                  lastAdd, last, filt, cmpVars, wr, sizeVars, lease, auxVars >>

\* somebody else removes a file from the dataset
ExternalDelete(p, n) ==
  /\ dv[p][n].id # 0
  /\ dv' = [dv EXCEPT ![p][n] = NoFile]
  /\ UNCHANGED << storeVars, nextId, stop, workerVars, adds, lastAdd, last,
                  filt, expired, cmpVars, wr, sizeVars, lease, auxVars >>

\* close(Stop)
StopSignal ==
  /\ ~stop
  /\ stop' = TRUE
  /\ UNCHANGED << storeVars, dv, nextId, workerVars, adds, lastAdd, last,
                  filt, expired, cmpVars, wr, sizeVars, lease, auxVars >>

\* ProcessJobs: the select takes <-Stop
Exit(w) ==
  /\ pc[w] = "idle"
  /\ stop
  /\ pc' = [pc EXCEPT ![w] = "exited"]
  /\ UNCHANGED << storeVars, dv, nextId, stop, wjob, known, todo, cnt, ctxDone,
                  popped, prog, adds, lastAdd, last, filt, expired, cmpVars, wr, sizeVars, lease, auxVars >>

\* doWork's goroutine: <-Stop cancels the job's context
CancelCtx(w) ==
  /\ InWork(w)
  /\ stop
  /\ ~ctxDone[w]
  /\ ctxDone' = [ctxDone EXCEPT ![w] = TRUE]
  /\ UNCHANGED << storeVars, dv, nextId, stop, pc, wjob, known, todo, cnt,
                  popped, prog, adds, lastAdd, last, filt, expired, cmpVars, wr, sizeVars, lease, auxVars >>

\* ProcessJobs: the timer fires, popJob, doWork up to the first node
Poll(w) ==
  /\ pc[w] = "idle"
  /\ ~stop
  /\ popJob(jobs).ok
  /\ LET r   == popJob(jobs)
         job == r.job
         pid == job.pid
         ids == DOMAIN job.nodes
         kh  == getKnownHashes(hashes[pid])
         nm  == GetNodeMap(dv[pid])
         fn  == filterRedundant(job.nodes, kh, nm)
         dels == {k \in ids : job.nodes[k].action = Delete}
         Start(label, j) ==
           /\ pc'     = [pc EXCEPT ![w] = label]
           /\ wjob'   = [wjob EXCEPT ![w] = j]
           /\ known'  = [known EXCEPT ![w] = kh]
           /\ todo'   = [todo EXCEPT ![w] = DOMAIN j.nodes]
           /\ cnt'    = [cnt EXCEPT ![w] = 0]
           /\ popped' = [popped EXCEPT ![w] = ids]
           /\ prog'   = [prog EXCEPT ![w] = [NoProg EXCEPT !.input = DOMAIN j.nodes]]
           /\ jobs'   = r.jobs
           /\ lease'  = Leased(lease, Marshal(job))
           /\ UNCHANGED << locks, hashes, last, ctxDone >>
     IN
     IF doWorkBranch(job) = "rehash"
       THEN \E o \in {"permission", "ok"}, granted \in GrantSets, probeOk \in BOOLEAN :
              /\ (o = "ok") <=> CheckPermission(granted, probeOk)
              /\ perm' = [denied |-> EditDataset \notin granted]
              /\ IF o = "ok"
                   THEN Start("rehash", job)
                   ELSE Return(w, pid, ids, NoJob, o, kh, FALSE, r.jobs, ids, 0, FALSE)
              /\ filt' = filt
       ELSE \E o \in {"deserialize", "list", "permission", "ok"},
               granted \in GrantSets, probeOk \in BOOLEAN :
              /\ (o = "list" => hasDelete(job.nodes))
              /\ IF o \in {"deserialize", "list"}
                   THEN granted = {} /\ probeOk
                   ELSE (o = "ok") <=> CheckPermission(granted, probeOk)
              /\ perm' = [denied |-> o \in {"permission", "ok"}
                                     /\ EditDataset \notin granted]
              /\ CASE o = "ok" -> Start("persist", [job EXCEPT !.nodes = fn])
                   [] o = "permission" ->
                        Return(w, pid, ids, NoJob, o, kh, FALSE, r.jobs, DOMAIN fn, 0, FALSE)
                   [] OTHER ->
                        Return(w, pid, ids, job, o, kh, FALSE, r.jobs, ids, 0, FALSE)
              /\ filt' = IF o \in {"ok", "permission"}
                           THEN [pid |-> pid, deletes |-> dels, gone |-> dels \ nm,
                                 kept |-> dels \cap DOMAIN fn]
                           ELSE filt
  /\ UNCHANGED << markers, dv, nextId, stop, adds, lastAdd, expired, cmpVars, wr, sizeVars, mk, fl, up, reg >>

\* doPersistNodeMap: one turn of the range loop, or what follows the loop
PersistStep(w) ==
  /\ pc[w] = "persist"
  /\ LET job   == wjob[w]
         pid   == job.pid
         left  == DOMAIN job.nodes
         i     == cnt[w] + 1
         total == cnt[w] + Cardinality(todo[w])
         flush == i % FlushEvery = 0 /\ i < total
     IN
     IF ctxDone[w]
       THEN /\ Return(w, pid, popped[w], job, ctxErr, known[w], TRUE, jobs, left, cnt[w], TRUE)
            /\ UNCHANGED << dv, nextId >>
     ELSE IF todo[w] = {}
       THEN /\ \E cleanupOk \in BOOLEAN :
                 Return(w, pid, popped[w], job, IF cleanupOk THEN "" ELSE "cleanup",
                        known[w], TRUE, jobs, left, cnt[w], FALSE)
            /\ UNCHANGED << dv, nextId >>
     ELSE \E k \in todo[w] : \E o \in Outcomes(job.nodes[k], dv[pid]) :
            LET r == PersistNode(job.nodes[k], o, known[w], dv[pid], nextId) IN
            /\ (job.nodes[k].action # Delete /\ ~trimProtocol(pid).ok) => o = "writeFail"
            /\ dv'     = [dv EXCEPT ![pid] = r.files]
            /\ nextId' = r.nextId
            /\ IF r.panic
                 THEN Panic(w, pid, r.known)
               ELSE IF r.err
                 THEN Return(w, pid, popped[w], job, "node", r.known, TRUE, jobs, left, cnt[w], FALSE)
               ELSE /\ wjob'  = [wjob EXCEPT ![w].nodes =
                                   IF r.removed THEN removeNode(job.nodes, k) ELSE job.nodes]
                    /\ known' = [known EXCEPT ![w] = r.known]
                    /\ todo'  = [todo EXCEPT ![w] = todo[w] \ {k}]
                    /\ cnt'   = [cnt EXCEPT ![w] = i]
                    /\ hashes' = IF flush THEN storeKnownHashes(hashes, pid, known[w])
                                 ELSE hashes
                    /\ prog'  = [prog EXCEPT
                                   ![w].done = IF o = "ok" THEN @ \cup {k} ELSE @,
                                   ![w].replaced =
                                     IF o = "ok" /\ job.nodes[k].action # Delete
                                                 /\ job.nodes[k].fileId # 0
                                       THEN @ \cup {k} ELSE @]
                    /\ UNCHANGED << jobs, locks, last, pc, ctxDone, popped, lease >>
  /\ UNCHANGED << markers, stop, adds, lastAdd, filt, expired, cmpVars, wr, sizeVars, auxVars >>

\* doRehash: one turn of the range loop, or the return after it
RehashStep(w) ==
  /\ pc[w] = "rehash"
  /\ LET job   == wjob[w]
         pid   == job.pid
         left  == DOMAIN job.nodes
         i     == cnt[w] + 1
         total == cnt[w] + Cardinality(todo[w])
         flush == i % FlushEvery = 0 /\ i < total
     IN
     IF todo[w] = {}
       THEN Return(w, pid, popped[w], job, "", known[w], TRUE, jobs, left, cnt[w], FALSE)
       ELSE \E k \in todo[w] : \E hashOk \in BOOLEAN :
              LET node == job.nodes[k]
                  kh   == calculateHash(node, known[w], doHash(node))
              IN
              /\ (hashOk \/ needsHash(node, known[w]))
              /\ (needsHash(node, known[w]) /\ ~trimProtocol(pid).ok) => ~hashOk
              /\ IF ~hashOk
                   THEN Return(w, pid, popped[w], job, "hash", known[w], TRUE, jobs, left, cnt[w], FALSE)
                   ELSE /\ wjob'  = [wjob EXCEPT ![w].nodes = removeNode(job.nodes, k)]
                        /\ known' = [known EXCEPT ![w] = kh]
                        /\ todo'  = [todo EXCEPT ![w] = todo[w] \ {k}]
                        /\ cnt'   = [cnt EXCEPT ![w] = i]
                        /\ hashes' = IF flush THEN storeKnownHashes(hashes, pid, kh)
                                     ELSE hashes
                        /\ UNCHANGED << jobs, locks, last, pc, ctxDone, popped, prog, lease >>
  /\ UNCHANGED << markers, dv, nextId, stop, adds, lastAdd, filt, expired, cmpVars, wr, sizeVars, auxVars >>

\* ------------------------------------------------------------- specification
Init ==
  /\ jobs    = << >>
  /\ locks   = {}
  /\ hashes  = [p \in Pids |-> Missing]
  /\ markers = [p \in Pids |-> [n \in NodeIds |-> ""]]
  /\ dv      = [p \in Pids |-> [n \in NodeIds |->
                  IF n = 1
                    THEN [id |-> p, bytes |-> Bytes(1), ck |-> TrueHash(defaultHash, Bytes(1))]
                    ELSE NoFile]]
  /\ nextId  = NumDatasets + 1
  /\ stop    = FALSE
  /\ pc      = [w \in Workers |-> "idle"]
  /\ wjob    = [w \in Workers |-> NoJob]
  /\ known   = [w \in Workers |-> EmptyMap]
  /\ todo    = [w \in Workers |-> {}]
  /\ cnt     = [w \in Workers |-> 0]
  /\ ctxDone = [w \in Workers |-> FALSE]
  /\ popped  = [w \in Workers |-> {}]
  /\ prog    = [w \in Workers |-> NoProg]
  /\ adds    = 0
  /\ lastAdd = NoAdd
  /\ last    = NoLast
  /\ filt    = NoFilt
  /\ expired = {}
  /\ cmpNodes = EmptyMap
  /\ cmpPid   = 0
  /\ cmpLog   = << >>
  /\ wr       = NoWrite
  /\ maxFileSize = 0
  /\ lease   = NoLease
  /\ AuxInit
  /\ resp     = NoResp

Next ==
  \/ \E p \in Pids : Enqueue(p)
  \/ \E p \in Pids, n \in NodeIds : ExternalDelete(p, n)
  \/ StopSignal
  \/ \E w \in Workers : Exit(w)
  \/ \E w \in Workers : CancelCtx(w)
  \/ \E w \in Workers : Poll(w)
  \/ \E w \in Workers : PersistStep(w)
  \/ \E w \in Workers : RehashStep(w)

\* The engine while every lock outlives the jobs accepted under it.
Spec == Init /\ [][Next]_vars

\* The engine with locks that reach lockMaxDuration; the dataset is changed
\* by the workers only.
NextTTL ==
  \/ \E p \in Pids : Enqueue(p)
  \/ \E p \in Pids : LockExpire(p)
  \/ StopSignal
  \/ \E w \in Workers : Exit(w)
  \/ \E w \in Workers : CancelCtx(w)
  \/ \E w \in Workers : Poll(w)
  \/ \E w \in Workers : PersistStep(w)
  \/ \E w \in Workers : RehashStep(w)

SpecTTL == Init /\ [][NextTTL]_vars

\* The comparator on its own: any cache content, any markers, any merged
\* tree of the dataset and a source.
CmpChoices(files, n, p) ==
  LET f == files[n] IN
  IF f.id = 0
    THEN {SourceNode(n, k, c) : k \in RemoteKinds, c \in Contents}
    ELSE {DatasetNode(n, f)}
         \cup {MergedNode(n, f, k, c) : k \in RemoteKinds, c \in Contents}

CacheEntries ==
  {Entry(defaultHash, TrueHash(defaultHash, Bytes(1)), rh) :
     rh \in {EmptyMap} \cup
            {[x \in {k} |-> TrueHash(k, c)] : k \in RemoteKinds, c \in Contents}}

CacheChoices ==
  {Missing} \cup
  {Stored(m) : m \in UNION {[S -> CacheEntries] : S \in SUBSET NodeIds}}

InitCmp ==
  /\ jobs    = << >>
  /\ locks   = {}
  /\ hashes  \in [Pids -> CacheChoices]
  /\ markers \in [Pids -> [NodeIds -> Marks]]
  /\ dv      = [p \in Pids |-> [n \in NodeIds |->
                  IF n = 1
                    THEN [id |-> p, bytes |-> Bytes(1), ck |-> TrueHash(defaultHash, Bytes(1))]
                    ELSE NoFile]]
  /\ nextId  = NumDatasets + 1
  /\ stop    = FALSE
  /\ pc      = [w \in Workers |-> "idle"]
  /\ wjob    = [w \in Workers |-> NoJob]
  /\ known   = [w \in Workers |-> EmptyMap]
  /\ todo    = [w \in Workers |-> {}]
  /\ cnt     = [w \in Workers |-> 0]
  /\ ctxDone = [w \in Workers |-> FALSE]
  /\ popped  = [w \in Workers |-> {}]
  /\ prog    = [w \in Workers |-> NoProg]
  /\ adds    = 0
  /\ lastAdd = NoAdd
  /\ last    = NoLast
  /\ filt    = NoFilt
  /\ expired = {}
  /\ cmpPid  \in Pids
  /\ cmpNodes \in UNION {AllNodes(S, LAMBDA n : CmpChoices(dv[cmpPid], n, cmpPid)) :
                           S \in (SUBSET NodeIds) \ {{}}}
  /\ cmpLog  = << >>
  /\ wr      = NoWrite
  /\ maxFileSize = 0
  /\ lease   = NoLease
  /\ AuxInit
  /\ resp    = NoResp

NextCmp ==
  \/ CompareRun
  \/ Invalidate

SpecCmp == InitCmp /\ [][NextCmp]_vars

\* The comparator next to the workers: compares of one merged tree of the
\* dataset, the jobs they enqueue, and the jobs of clients.
InitRehash ==
  /\ jobs    = << >>
  /\ locks   = {}
  /\ hashes  = [p \in Pids |-> Missing]
  /\ markers = [p \in Pids |-> [n \in NodeIds |-> ""]]
  /\ dv      = [p \in Pids |-> [n \in NodeIds |->
                  IF n = 1
                    THEN [id |-> p, bytes |-> Bytes(1), ck |-> TrueHash(defaultHash, Bytes(1))]
                    ELSE NoFile]]
  /\ nextId  = NumDatasets + 1
  /\ stop    = FALSE
  /\ pc      = [w \in Workers |-> "idle"]
  /\ wjob    = [w \in Workers |-> NoJob]
  /\ known   = [w \in Workers |-> EmptyMap]
  /\ todo    = [w \in Workers |-> {}]
  /\ cnt     = [w \in Workers |-> 0]
  /\ ctxDone = [w \in Workers |-> FALSE]
  /\ popped  = [w \in Workers |-> {}]
  /\ prog    = [w \in Workers |-> NoProg]
  /\ adds    = 0
  /\ lastAdd = NoAdd
  /\ last    = NoLast
  /\ filt    = NoFilt
  /\ expired = {}
  /\ cmpPid  \in Pids
  /\ cmpNodes \in UNION {AllNodes(S, LAMBDA n : CmpChoices(dv[cmpPid], n, cmpPid)) :
                           S \in (SUBSET NodeIds) \ {{}}}
  /\ cmpLog  = << >>
  /\ wr      = NoWrite
  /\ maxFileSize = 0
  /\ lease   = NoLease
  /\ AuxInit
  /\ resp    = NoResp

NextRehash ==
  \/ CompareRun
  \/ \E p \in Pids : EnqueueHashOnly(p)
  \/ \E w \in Workers : Poll(w)
  \/ \E w \in Workers : PersistStep(w)
  \/ \E w \in Workers : RehashStep(w)

SpecRehash == InitRehash /\ [][NextRehash]_vars

\* The engine with jobs whose persistentId has no ':'; the dataset
\* repository and the shared store take such an id like any other.
InitPid ==
  /\ jobs    = << >>
  /\ locks   = {}
  /\ hashes  = [p \in AllPids |-> Missing]
  /\ markers = [p \in AllPids |-> [n \in NodeIds |-> ""]]
  /\ dv      = [p \in AllPids |-> [n \in NodeIds |->
                  IF n = 1
                    THEN [id |-> p, bytes |-> Bytes(1), ck |-> TrueHash(defaultHash, Bytes(1))]
                    ELSE NoFile]]
  /\ nextId  = BadPid + 1
  /\ stop    = FALSE
  /\ pc      = [w \in Workers |-> "idle"]
  /\ wjob    = [w \in Workers |-> NoJob]
  /\ known   = [w \in Workers |-> EmptyMap]
  /\ todo    = [w \in Workers |-> {}]
  /\ cnt     = [w \in Workers |-> 0]
  /\ ctxDone = [w \in Workers |-> FALSE]
  /\ popped  = [w \in Workers |-> {}]
  /\ prog    = [w \in Workers |-> NoProg]
  /\ adds    = 0
  /\ lastAdd = NoAdd
  /\ last    = NoLast
  /\ filt    = NoFilt
  /\ expired = {}
  /\ cmpNodes = EmptyMap
  /\ cmpPid   = 0
  /\ cmpLog   = << >>
  /\ wr       = NoWrite
  /\ maxFileSize = 0
  /\ lease   = NoLease
  /\ AuxInit
  /\ resp     = NoResp

NextPid ==
  \/ Enqueue(BadPid)
  \/ \E n \in NodeIds : ExternalDelete(BadPid, n)
  \/ \E w \in Workers : Poll(w)
  \/ \E w \in Workers : PersistStep(w)
  \/ \E w \in Workers : RehashStep(w)

SpecPid == InitPid /\ [][NextPid]_vars

\* write on its own: any stream content, any declared file size, any pair
\* of hash kinds (also one getHash does not know), any persistent id.
InitWrite ==
  /\ jobs    = << >>
  /\ locks   = {}
  /\ hashes  = [p \in Pids |-> Missing]
  /\ markers = [p \in Pids |-> [n \in NodeIds |-> ""]]
  /\ dv      = [p \in Pids |-> [n \in NodeIds |-> NoFile]]
  /\ nextId  = NumDatasets + 1
  /\ stop    = FALSE
  /\ pc      = [w \in Workers |-> "idle"]
  /\ wjob    = [w \in Workers |-> NoJob]
  /\ known   = [w \in Workers |-> EmptyMap]
  /\ todo    = [w \in Workers |-> {}]
  /\ cnt     = [w \in Workers |-> 0]
  /\ ctxDone = [w \in Workers |-> FALSE]
  /\ popped  = [w \in Workers |-> {}]
  /\ prog    = [w \in Workers |-> NoProg]
  /\ adds    = 0
  /\ lastAdd = NoAdd
  /\ last    = NoLast
  /\ filt    = NoFilt
  /\ expired = {}
  /\ cmpNodes = EmptyMap
  /\ cmpPid   = 0
  /\ cmpLog   = << >>
  /\ \E b \in Contents \cup {<< >>}, p \in AllPids, h \in HashKinds,
        r \in HashKinds \cup {"crc32"}, n \in 0..NumContents :
       wr = [NoWrite EXCEPT !.bytes = b, !.pid = p, !.hashType = h,
                            !.remoteHashType = r, !.fileSize = n]
  /\ maxFileSize = 0
  /\ lease   = NoLease
  /\ AuxInit
  /\ resp     = NoResp

NextWrite == WriteCall

SpecWrite == InitWrite /\ [][NextWrite]_vars


\* Compare requests on their own: any inventory of the dataset, any size
\* limit, any tree of the source.
InitSize ==
  /\ jobs    = << >>
  /\ locks   = {}
  /\ hashes  = [p \in Pids |-> Missing]
  /\ markers = [p \in Pids |-> [n \in NodeIds |-> ""]]
  /\ \E S \in SUBSET NodeIds, c \in [NodeIds -> Contents] :
       dv = [p \in Pids |-> [n \in NodeIds |->
               IF n \in S
                 THEN [id |-> n, bytes |-> c[n], ck |-> TrueHash(defaultHash, c[n])]
                 ELSE NoFile]]
  /\ nextId  = NumNodes + 1
  /\ stop    = FALSE
  /\ pc      = [w \in Workers |-> "idle"]
  /\ wjob    = [w \in Workers |-> NoJob]
  /\ known   = [w \in Workers |-> EmptyMap]
  /\ todo    = [w \in Workers |-> {}]
  /\ cnt     = [w \in Workers |-> 0]
  /\ ctxDone = [w \in Workers |-> FALSE]
  /\ popped  = [w \in Workers |-> {}]
  /\ prog    = [w \in Workers |-> NoProg]
  /\ adds    = 0
  /\ lastAdd = NoAdd
  /\ last    = NoLast
  /\ filt    = NoFilt
  /\ expired = {}
  /\ cmpNodes = EmptyMap
  /\ cmpPid   = 0
  /\ cmpLog   = << >>
  /\ wr       = NoWrite
  /\ maxFileSize \in 0..NumContents
  /\ lease   = NoLease
  /\ AuxInit
  /\ resp     = NoResp

NextSize == \E p \in Pids : doCompare(p)

SpecSize == InitSize /\ [][NextSize]_vars


\* Write jobs of a plugin whose remote hash kind is the dataset's checksum
\* kind.
NextStale ==
  \/ \E p \in Pids : EnqueueWrite(p, Md5)
  \/ \E w \in Workers : Poll(w)
  \/ \E w \in Workers : PersistStep(w)

SpecStale == Init /\ [][NextStale]_vars

\* Store requests, compare requests and the workers: at most MaxRequests
\* store requests and MaxRequests comparisons that get past their checks.
NextPerm ==
  \/ \E p \in Pids : adds < MaxRequests /\ Enqueue(p)
  \/ \E p \in Pids : Len(cmpLog) < MaxRequests /\ doCompare(p)
  \/ \E w \in Workers : Poll(w)
  \/ \E w \in Workers : PersistStep(w)
  \/ \E w \in Workers : RehashStep(w)

SpecPerm == Init /\ [][NextPerm]_vars

\* Calls of write that go through getFile, one after the other.
NextUpload ==
  \/ GetFile
  \/ ioCopy
  \/ fClose
  \/ swordAddFile
  \/ WaitReturn

SpecUpload == Init /\ [][NextUpload]_vars

\* writeToDV on its own: any answer of the dataset repository.
NextAdd == AddFilesCall

SpecAdd == Init /\ [][NextAdd]_vars

\* The loops of doPersistNodeMap and doRehash by their counters.
NextFlush ==
  \/ \E kind \in {"write", "rehash"}, total \in 0..MaxTotal : LoopStart(kind, total)
  \/ PersistTurn
  \/ RehashTurn
  \/ LoopEnd

SpecFlush == Init /\ [][NextFlush]_vars

\* Comparators and a writer on the markers of the datasets.
NextMark ==
  \/ \E p \in Pids, n \in NodeIds, v \in {Written, Deleted} : SetMarker(p, n, v)
  \/ \E c \in Comparers, p \in Pids, n \in NodeIds : MarkerGet(c, p, n)
  \/ \E c \in Comparers : MarkerDel(c)

SpecMark == Init /\ [][NextMark]_vars


\* ------------------------------------------------------------- properties
\* the workers that are in doWork with a job of persistentId
Working(persistentId) ==
  {w \in Workers : InWork(w) /\ wjob[w].pid = persistentId}

\* C1 as stated: in every reachable state, for each persistentId at most
\* one worker is executing doWork on a job with that persistentId.
C1_ExclusiveAlways ==
  \A p \in Pids : Cardinality(Working(p)) <= 1

\* C1: for each persistentId none of whose locks has expired while a job
\* accepted under it was still queued or being processed, at most one worker
\* is executing doWork on a job with that persistentId.
C1_LockExclusivity ==
  \A p \in Pids \ expired : Cardinality(Working(p)) <= 1

\* a worker is in doWork for a dataset whose lock never expired, and a
\* second AddJob for that dataset was turned away meanwhile
C1_Witness ==
  \E w \in Workers :
    /\ InWork(w)
    /\ wjob[w].pid \notin expired
    /\ lastAdd.pid = wjob[w].pid
    /\ lastAdd.pending /\ lastAdd.err
    /\ \E v \in Workers : v # w /\ pc[v] = "idle"

MidBatchCancel ==
  last.cancelled /\ last.processed >= 1 /\ last.left # {}

\* C3: when the stop signal fires while a write job is mid-batch, the job
\* returns without error, the worker re-enqueues a job whose writableNodes
\* are exactly the unprocessed nodes, and the dataset lock stays held.
C3_CancelRequeues ==
  MidBatchCancel =>
    /\ last.err = ""
    /\ last.requeued
    /\ last.residual = last.left
    /\ last.lockHeld

\* C4: for every job a worker pops and for which doWork returns without
\* error, the returned job's writableNodes are a proper subset of the popped
\* job's writableNodes.
C4_ResidualProgress ==
  (last.pid # 0 /\ last.err = "") =>
    /\ last.residual \subseteq last.popped
    /\ last.residual # last.popped

\* a job of two nodes went through doWork without error
C4_Witness ==
  last.pid # 0 /\ last.err = "" /\ Cardinality(last.popped) = 2 /\ last.processed = 2

\* C5: when processing one node of a write job fails, the write loop
\* processes no further node of that job (the worker is back at the top of
\* its loop without the job), the worker releases the dataset lock, and
\* nothing is re-enqueued.
C5_NodeErrorAborts ==
  /\ last.err = "node" => (last.unlocked /\ ~last.requeued /\ ~last.lockHeld)
  /\ \A w \in Workers : ~InWork(w) => (wjob[w] = NoJob \/ pc[w] = "crashed")

\* a node of a write job failed after another one was processed, with the
\* failed node left over
C5_Witness ==
  last.err = "node" /\ last.processed = 1 /\ last.left # {}

\* every worker has left its loop after the stop signal
AllExited == stop /\ \A w \in Workers : pc[w] = "exited"

\* C6: after the stop signal, once the workers have exited, a job that was
\* cut short by the cancellation is in the list with its unprocessed nodes.
C6_ShutdownKeepsJobs ==
  (AllExited /\ last.cancelled /\ last.left # {}) =>
    \E i \in 1..Len(jobs) :
      /\ Unmarshal(jobs[i]).pid = last.pid
      /\ DOMAIN Unmarshal(jobs[i]).nodes = last.left

\* C7: before a write job executes, the delete nodes dropped are exactly
\* those whose id is absent from the listing of the dataset's files; the
\* delete nodes whose file is still in the dataset are kept.
C7_StaleDeleteDropped ==
  filt.kept = filt.deletes \ filt.gone

\* C10: for each node n and hash kind k, if the cache entry of n has
\* localHashValue equal to the dataset's current checksum value of n and
\* remoteHashes[k] is present, then remoteHashes[k] is the k-hash of the
\* bytes the dataset currently holds for n.
C10_CacheConsistency ==
  \A p \in Pids :
    LET cache == getKnownHashes(hashes[p]) IN
    \A n \in DOMAIN cache :
      (dv[p][n].id # 0 /\ cache[n].lv = dv[p][n].ck) =>
        \A k \in DOMAIN cache[n].rh : cache[n].rh[k] = TrueHash(k, dv[p][n].bytes)

\* runs i and i+1 of the comparator follow each other directly
TwoRuns(i) ==
  /\ i \in 1..(Len(cmpLog) - 1)
  /\ cmpLog[i].op = "compare"
  /\ cmpLog[i + 1].op = "compare"

\* run i, an invalidation of the cache entry, run i+2
RunInvalidateRun(i) ==
  /\ i \in 1..(Len(cmpLog) - 2)
  /\ cmpLog[i].op = "compare"
  /\ cmpLog[i + 1].op = "invalidate"
  /\ cmpLog[i + 2].op = "compare"

\* C8 as stated: for any initial cache and markers, two consecutive runs of
\* the comparator on the same merged tree annotate every node with the same
\* local hash and assign every node the same action.
C8_IdempotentAlways ==
  \A i \in 1..MaxRuns :
    TwoRuns(i) =>
      /\ cmpLog[i + 1].lh  = cmpLog[i].lh
      /\ cmpLog[i + 1].act = cmpLog[i].act

\* C8: for any initial cache, when no written/deleted marker is pending
\* for a node of the merged tree, two consecutive runs of the comparator
\* annotate every node with the same local hash and assign every node the
\* same action.
C8_CompareIdempotent ==
  \A i \in 1..MaxRuns :
    (TwoRuns(i) /\ cmpLog[i].marked = {}) =>
      /\ cmpLog[i + 1].lh  = cmpLog[i].lh
      /\ cmpLog[i + 1].act = cmpLog[i].act

\* two runs in a row without a pending marker: one node answered from the
\* cache, one marked for rehash, the hash-only job of the first run queued
C8_Witness ==
  /\ TwoRuns(1) /\ cmpLog[1].marked = {}
  /\ \E k \in DOMAIN cmpNodes : cmpLog[1].from[k] = "cache"
  /\ \E k \in DOMAIN cmpNodes : cmpLog[2].lh[k] = UnknownHash
  /\ jobs # << >>

\* C9 as stated: compare, invalidate the dataset's cache entry, compare
\* again: every node gets the same action as in the first compare (taken
\* where no marker was pending, so that only the cache differs).
C9_SameAfterInvalidate ==
  \A i \in 1..MaxRuns :
    (RunInvalidateRun(i) /\ cmpLog[i].marked = {}) =>
      cmpLog[i + 2].act = cmpLog[i].act

\* what a node answered from the cache is annotated with once the cache
\* entry is gone
Uncached(node) == IF node.localHash # NoHash THEN UnknownHash ELSE NoHash

\* C9: with no marker pending, compare, invalidate, compare: every node
\* whose local hash the first compare did not take from the cache gets the
\* same local hash and action again; a node answered from the cache gets
\* "?" and the action unknown if the dataset holds it, and no local hash
\* otherwise.
C9_CacheAdvisory ==
  \A i \in 1..MaxRuns :
    (RunInvalidateRun(i) /\ cmpLog[i].marked = {}) =>
      \A k \in DOMAIN cmpNodes :
        IF cmpLog[i].from[k] = "cache"
          THEN /\ cmpLog[i + 2].lh[k]  = Uncached(cmpNodes[k])
               /\ cmpLog[i + 2].act[k] = Action(cmpNodes[k], Uncached(cmpNodes[k]))
          ELSE /\ cmpLog[i + 2].lh[k]  = cmpLog[i].lh[k]
               /\ cmpLog[i + 2].act[k] = cmpLog[i].act[k]

\* compare, invalidate, compare with one node answered from the cache that
\* comes back unknown and another node that keeps its action
C9_Witness ==
  /\ RunInvalidateRun(1) /\ cmpLog[1].marked = {}
  /\ \E k \in DOMAIN cmpNodes :
       /\ cmpLog[1].from[k] = "cache"
       /\ cmpLog[1].act[k] \in {"equal", "update"}
       /\ cmpLog[3].act[k] = "unknown"
  /\ \E k \in DOMAIN cmpNodes :
       /\ cmpLog[1].from[k] # "cache"
       /\ cmpLog[3].act[k] = cmpLog[1].act[k]

\* the nodes of the merged tree that a compare of the present cache marks
\* for rehash
Misses ==
  {k \in DOMAIN cmpNodes :
     compareNode(cmpNodes[k], getKnownHashes(hashes[cmpPid]), "").job}

\* C11: the job a compare enqueues for its cache misses is a hash-only job
\* (one that doWork hands to the rehash loop), and once a worker has
\* processed that job without error a compare of the unchanged dataset
\* reports no cache miss for any of its nodes.
C11_RehashResolvesMisses ==
  /\ \A i \in 1..Len(jobs) :
       Unmarshal(jobs[i]).plugin = HashOnly => doWorkBranch(Unmarshal(jobs[i])) = "rehash"
  /\ (last.plugin = HashOnly /\ last.err = "" /\ last.residual = {}) =>
       (last.branch = "rehash" /\ last.popped \cap Misses = {})

\* C12: a job that the comparator enqueued for cache misses is executed by
\* the rehash loop and never by the write loop: a worker that returned from
\* such a job went through doRehash, not through deserialize,
\* filterRedundant and doPersistNodeMap.
C12_ComparatorJobRehashed ==
  last.plugin = HashOnly => last.branch = "rehash"

\* C13: a write job or a hash-only job whose persistentId contains no ':'
\* fails with an error before any node is processed; the worker does not
\* put it back on the list, the dataset's hash cache entry holds what it
\* held, and no dataset file is deleted.
C13_MalformedPidFails ==
  (last.pid = BadPid /\ ~trimProtocol(last.pid).ok) =>
    /\ last.err # ""
    /\ last.processed = 0
    /\ ~last.requeued
    /\ getKnownHashes(hashes[BadPid]) = EmptyMap
    /\ \A n \in NodeIds : dv[BadPid][n].id \in {0, BadPid}

\* C14: for every write that returns without error, with B the bytes the
\* stream delivered, the local digest is H_local(B), the size is |B| and the
\* remote digest is H_remote(B); for gitHash that is SHA-1 over
\* "blob <|B|>\0" followed by B.
C14_MultiHashSinglePass ==
  (wr.called /\ ~wr.ret.err) =>
    /\ wr.ret.hash       = TrueHash(wr.hashType, wr.bytes)
    /\ wr.ret.size       = Len(wr.bytes)
    /\ wr.ret.remoteHash = TrueHash(wr.remoteHashType, wr.bytes)

\* C15: after a compare request that succeeded, a file of the source tree
\* that is larger than maxFileSize (maxFileSize > 0) is listed in tooLarge
\* and no node of the response has its id, so it gets no action (never
\* "delete"), also when the dataset holds a file with that id.
C15_TooLargeExcluded ==
  (resp.called /\ ~resp.err) =>
    \A k \in DOMAIN resp.repo :
      (resp.maxFileSize > 0 /\ resp.repo[k].filesize > resp.maxFileSize) =>
        /\ k \in resp.tooLarge
        /\ k \notin DOMAIN resp.act

\* doPersistNodeMap was called for the last job a worker returned from
PersistReturned ==
  last.pid # 0 /\ last.branch = "write" /\ last.err \notin {"deserialize", "list"}

\* C16: whenever doPersistNodeMap returns (normally, on error or on
\* cancellation), the writableNodes of the job it returns are exactly the
\* nodes it was given minus the nodes for which every step succeeded.
C16_WellFormedResidual ==
  PersistReturned => last.residual = last.input \ last.done

\* C17: whenever the key 'lock: <pid>' of a dataset exists, a job of that
\* dataset is in the list 'jobs' or with a worker; also after an enqueue
\* whose push failed and after a residual re-enqueue that failed.
C17_NoOrphanLock ==
  \A p \in AllPids : p \in locks => Pending(p)

\* C18: the list 'jobs' is a queue: it holds the records pushed and not
\* leased yet, the newest at its left end (a residual re-enqueue is behind
\* every record already there), and every lease so far handed out the oldest
\* record then waiting, so no record is leased twice.
C18_QueueDiscipline ==
  /\ lease.fifo
  /\ Len(jobs) = Len(lease.pend)
  /\ \A i \in 1..Len(jobs) : jobs[i] = lease.pend[Len(jobs) + 1 - i]

\* a worker leased the older of two different records that were waiting and
\* works on it while the newer one is still in the list
C18_Witness ==
  /\ lease.deep
  /\ Len(jobs) = 1
  /\ \E w \in Workers : pc[w] = "persist" /\ Marshal(wjob[w]) # jobs[1]

\* worker w takes a write job from the list and doPersistNodeMap starts on
\* what filterRedundant left of it
FilterStep(w) == pc[w] = "idle" /\ pc'[w] = "persist"

\* C19: when a write job starts, a node that is not a delete node has been
\* dropped if and only if the cache holds remoteHashes[remoteHashKind] for
\* its id with the node's remoteHashValue; a delete node is not dropped for
\* what the cache holds (one whose file the listing does not show is kept);
\* every node kept has its key and its content unchanged.
C19_RedundantFilter ==
  [][\A w \in Workers : FilterStep(w) =>
       LET job  == Unmarshal(jobs[Len(jobs)])
           kh   == getKnownHashes(hashes[job.pid])
           out  == wjob'[w].nodes
       IN  /\ DOMAIN out \subseteq DOMAIN job.nodes
           /\ \A k \in DOMAIN out : out[k] = job.nodes[k]
           /\ \A k \in DOMAIN job.nodes :
                LET v == job.nodes[k]
                    hit == /\ k \in DOMAIN kh
                           /\ v.rkind \in DOMAIN kh[k].rh
                           /\ kh[k].rh[v.rkind] = v.rhash
                IN  IF v.action = Delete
                      THEN k \notin GetNodeMap(dv[job.pid]) => k \in DOMAIN out
                      ELSE (k \notin DOMAIN out) <=> hit]_vars

\* a write job without delete nodes has started with one of its nodes
\* dropped and another one kept
C19_Witness ==
  \E w \in Workers :
    /\ pc[w] = "persist"
    /\ cnt[w] = 0
    /\ filt.deletes = {}
    /\ prog[w].input # {}
    /\ prog[w].input # popped[w]
    /\ \A x \in Workers \ {w} : pc[x] = "idle"

\* a run of the comparator on cmpNodes has just been logged
ComparedNow ==
  /\ Len(cmpLog') = Len(cmpLog) + 1
  /\ cmpLog'[Len(cmpLog')].op = "compare"

\* the run just logged gave node k the local hash lh and put it into
\* jobNodes or not
Gave(k, lh, job) ==
  LET e == cmpLog'[Len(cmpLog')] IN
  e.lh[k] = lh /\ ((k \in e.jobNodes) <=> job)

C21_DeletedMarkerAbsent ==
  [][ComparedNow =>
       \A k \in DOMAIN cmpNodes :
         (cmpNodes[k].rkind # "" /\ GetMarker(markers, redisKey(cmpPid, k)) = Deleted) =>
           /\ Gave(k, NoHash, FALSE)
           /\ GetMarker(markers', redisKey(cmpPid, k)) = ""]_vars

\* the write loop of worker w has just finished node k: every call for it
\* succeeded
NodeDone(w, k) ==
  /\ pc[w] = "persist"
  /\ k \in prog'[w].done
  /\ k \notin prog[w].done

\* C22: when the write loop has deleted a node's file from the dataset, the
\* marker of the node is "deleted", and when it has registered the node's
\* new file, the marker is "written", before the loop goes to the next
\* node; a step in which the processing of a node fails sets no marker.
C22_MarkerProduction ==
  [][\A w \in Workers :
       /\ \A k \in NodeIds :
            NodeDone(w, k) =>
              GetMarker(markers', redisKey(wjob[w].pid, k)) =
                IF wjob[w].nodes[k].action = Delete THEN Deleted ELSE Written
       /\ (pc[w] = "persist" /\ pc'[w] = "idle" /\ last'.err = "node") =>
            markers' = markers]_vars

\* C23: a marker value set by a writer is never deleted without some
\* comparator having read it, whatever the interleaving of writers and
\* comparators: a value set between a comparator's Get and its Del is not
\* removed by that Del.
C23_MarkerNotLost == ~mk.lost

Stale(knownHashes, files, k) ==
  /\ k \in DOMAIN knownHashes
  /\ files[k].id # 0
  /\ knownHashes[k].lv # files[k].ck

\* C25: a write job's filter never drops a node as redundant on the
\* strength of a stale cache entry, also after a write job that updated the
\* cache but failed to delete the old copy or to register the new file.
C25_StaleNeverUsed ==
  [][\A w \in Workers : FilterStep(w) =>
       LET job == Unmarshal(jobs[Len(jobs)])
           kh  == getKnownHashes(hashes[job.pid])
       IN  \A k \in DOMAIN job.nodes :
             (job.nodes[k].action # Delete /\ Stale(kh, dv[job.pid], k)) =>
               k \in DOMAIN wjob'[w].nodes]_vars

\* C26: a step of the write loop that deletes a node's file from the
\* dataset and leaves the node without a file also leaves the hash cache in
\* the store without an entry for the node: no state a concurrent
\* comparator can read has the file gone and the entry present.
C26_DeleteAtomic ==
  [][\A w \in Workers : \A k \in NodeIds :
       (/\ PersistStep(w)
        /\ dv[wjob[w].pid][k].id # 0
        /\ dv'[wjob[w].pid][k].id = 0) =>
         k \notin DOMAIN getKnownHashes(hashes'[wjob[w].pid])]_vars

\* C27: during a write job or a hash-only job, the nodes processed whose
\* cache changes are not yet in the store are never more than 10, and when
\* the loop has exited after the permission check the cache has been stored
\* once more.
C27_FlushCadence ==
  /\ fl.unflushed <= FlushEvery
  /\ (fl.pc = "done" /\ fl.permitted) => fl.exitStore

\* the cache a step of worker w leaves behind: the worker's map while the
\* loop goes on, the stored one when the step returned or panicked
CacheAfter(w) ==
  IF pc'[w] = "persist" THEN known'[w] ELSE getKnownHashes(hashes'[wjob[w].pid])

\* the step of worker w deleted the file the dataset held under id
DeletedOld(w, id) ==
  /\ HasId(dv[wjob[w].pid], id)
  /\ ~HasId(dv'[wjob[w].pid], id)

\* the entry the loop puts into the cache once write has stored the bytes of v
WrittenEntry(v) ==
  Entry(defaultHash, HashOf(defaultHash, v.filesize, v.src),
        [h \in {v.rkind} |-> HashOf(v.rkind, v.filesize, v.src)])

\* C28: in a turn of the write loop for a node that is not a delete, the
\* old copy is deleted only when the bytes were stored and the cache entry
\* was updated, and the new file is registered only when, for a node with a
\* non-zero file id, the old copy was deleted (and so the bytes stored and
\* the cache updated).
C28_WriteOrder ==
  [][\A w \in Workers : PersistStep(w) =>
       \A k \in todo[w] :
         LET v     == wjob[w].nodes[k]
             pid   == wjob[w].pid
             cache == CacheAfter(w)
             cached == k \in DOMAIN cache /\ cache[k] = WrittenEntry(v)
             registered == dv'[pid][k].id = nextId /\ nextId' = nextId + 1
         IN  v.action # Delete =>
               /\ (v.fileId # 0 /\ DeletedOld(w, v.fileId)) => cached
               /\ registered => /\ cached
                                /\ v.fileId # 0 => DeletedOld(w, v.fileId)]_vars

\* a worker is in the write loop and has replaced the file of a node: the
\* cache has the entry of the new bytes, the dataset the new file only
C28_Witness ==
  \E w \in Workers :
    /\ pc[w] = "persist"
    /\ \E k \in prog[w].replaced :
         /\ k \in DOMAIN known[w]
         /\ dv[wjob[w].pid][k].id # 0
         /\ dv[wjob[w].pid][k].ck = known[w][k].lv

\* C29: a job whose key does not hold EditDataset fails with an error
\* before its loop starts: no file is deleted from or registered in the
\* dataset and the hash cache is not stored; a compare whose key does not
\* hold EditDataset calls neither GetNodeMap nor the plugin, enqueues
\* nothing and caches a response with an error message.
C29_PermissionGate ==
  [][/\ \A w \in Workers :
          (Poll(w) /\ perm'.denied) =>
            /\ pc'[w] = "idle"
            /\ last'.err # ""
            /\ dv' = dv
            /\ nextId' = nextId
            /\ hashes' = hashes
     /\ \A p \in Pids :
          (doCompare(p) /\ resp'.denied) =>
            /\ resp'.err
            /\ ~resp'.listed
            /\ ~resp'.queried
            /\ jobs' = jobs
            /\ locks' = locks]_vars

\* a job and a compare were both refused for a key without EditDataset
C29_Witness ==
  /\ perm.denied
  /\ last.err = "permission"
  /\ last.pid # 0
  /\ resp.called
  /\ resp.denied
  /\ resp.err

\* C30: a call of write in indirect mode starts one upload task when it has
\* opened the sink and none otherwise; when it has returned after opening
\* the sink, the sink and the pipe are closed and the task has finished;
\* and it has returned an error when the copy, the close or the task failed.
C30_UploadPipeline ==
  up.sword =>
    /\ up.tasks = IF up.opened THEN 1 ELSE 0
    /\ (up.pc = "returned" /\ up.opened) =>
         /\ ~up.sinkOpen
         /\ ~up.pipeOpen
         /\ ~up.running
    /\ (up.pc = "returned" /\ (up.err_copy \/ up.err_close \/ up.async_err)) =>
         up.ret = "err"

\* an indirect write has returned an error after a failed copy: the sink
\* was closed all the same and the one task has finished
C30_Witness ==
  /\ up.sword
  /\ up.pc = "returned"
  /\ up.opened
  /\ up.err_copy
  /\ up.tasks = 1
  /\ ~up.sinkOpen
  /\ up.ret = "err"

\* C31: once the context of a worker's job is cancelled, every step of the
\* write loop and of the rehash loop of that worker processes no node: it
\* is the return of the job with the context's error and with all the nodes
\* that were left as the residual.
C31_CancelPerNode ==
  [][\A w \in Workers :
       (ctxDone[w] /\ (PersistStep(w) \/ RehashStep(w))) =>
         /\ pc'[w] = "idle"
         /\ last'.cancelled
         /\ last'.err = ctxErr
         /\ last'.residual = DOMAIN wjob[w].nodes]_vars

\* C32: no worker has crashed in the write loop with the lock of its
\* dataset held and its job lost: a delete or add-files request that gets no
\* response comes back to the loop as an error, the job is aborted and the
\* lock released.
C32_TransportFailureReturned ==
  \A w \in Workers :
    ~(/\ pc[w] = "crashed"
      /\ wjob[w].pid # 0
      /\ doWorkBranch(wjob[w]) = "write"
      /\ wjob[w].pid \in locks
      /\ \A i \in 1..Len(jobs) : Unmarshal(jobs[i]).pid # wjob[w].pid)

\* C33: writeToDV returns no error only for an answer with status 200 that
\* decodes and reports exactly one file added, whatever the number of file
\* entries in it.
C33_RegistrationSuccess ==
  reg.called =>
    (~reg.err <=> (reg.status = 200 /\ ~reg.decodeErr /\ reg.added = 1))
====
